---- MODULE Spec2Model ----
\* A model of the rain glare post-processing effect: the plugin's setup
\* (src/src/lib.rs build/finish), the per-frame update systems
\* (advance_rain_time, and the demo's tweak_rain_glare_settings), the
\* extract/prepare synchronisation of RainGlareSettings into the dynamic
\* uniform buffer, and the render graph node RainGlareNode::run.
\*
\* f32 values are fixed-point integers: settings fields and seconds are in
\* hundredths (Unit), direction components in tenths (DirUnit).
EXTENDS Integers, Sequences, FiniteSets, TLC

\* ------------------------------------------------------------------ bounds

\* Number of frames in which the engine clock advances; in later frames it
\* stands still (delta = 0).
MaxTicks == 2

\* ------------------------------------------------------------- fixed point

Unit == 100
DirUnit == 10
TickDelta == 50

\* Option::None, for an id, an offset or a value that is otherwise >= 0; and
\* for a result.
NoId == 0
NoValue == -1
None == "None"

Abs(x) == IF x < 0 THEN -x ELSE x

\* f32::clamp(lo, hi)
Clamp(x, lo, hi) == IF x < lo THEN lo ELSE IF x > hi THEN hi ELSE x

\* ------------------------------------------------------------ the settings

\* Defaults that leave the angle factor at zero.
DefaultSettingsZeroFactor ==
  [ intensity |-> 35, threshold |-> 65, streak_length_px |-> 9600,
    rain_density |-> 55, wind |-> <<10, 100>>, speed |-> 120, time |-> 0,
    pattern_scale |-> 300, mask_thickness_px |-> 75, snap_to_pixel |-> 100,
    tail_quant_steps |-> 800, view_angle_factor |-> 0 ]

\* impl Default for RainGlareSettings
DefaultSettings ==
  [ intensity |-> 35, threshold |-> 65, streak_length_px |-> 9600,
    rain_density |-> 55, wind |-> <<10, 100>>, speed |-> 120, time |-> 0,
    pattern_scale |-> 300, mask_thickness_px |-> 75, snap_to_pixel |-> 100,
    tail_quant_steps |-> 800, view_angle_factor |-> 100 ]

\* The demo's camera: RainGlareSettings { ..overrides, ..default() }
DemoSettings ==
  [ DefaultSettings EXCEPT
      !.intensity = 25, !.threshold = 45, !.streak_length_px = 1000,
      !.rain_density = 360, !.wind = <<0, -100>>, !.speed = 1940,
      !.pattern_scale = 100, !.mask_thickness_px = 65,
      !.snap_to_pixel = 100, !.tail_quant_steps = 800 ]

\* ------------------------------------------------------------- the formats

\* TextureFormat::bevy_default(), ViewTarget::TEXTURE_FORMAT_HDR, and a
\* format that is neither.
Formats == {"Standard", "Hdr", "Other"}

\* The formats from_world queues a pipeline for, in loop order.
SupportedFormats == <<"Standard", "Hdr">>

\* ------------------------------------------------------------ the entities

Entities == {1, 2}

\* What an entity is spawned with: whether it carries RainGlareSettings (and
\* which), whether it is a Camera3d, and its view's main texture format.
NoEffect == [has |-> FALSE, cam3d |-> TRUE, format |-> "Standard", init |-> DefaultSettings]

\* The worlds the model starts from: entity 1 is the demo's camera, with any
\* format, or carries no settings; beside the demo's HDR camera, entity 2
\* may be a second camera with default settings or an entity with settings
\* that is no Camera3d.
Worlds ==
  { w \in [Entities -> [has : BOOLEAN, cam3d : BOOLEAN, format : Formats,
                        init : {DemoSettings, DefaultSettings}]] :
      /\ w[1] \in {NoEffect} \cup
                  [has : {TRUE}, cam3d : {TRUE}, format : Formats, init : {DemoSettings}]
      /\ w[2] \in {NoEffect} \cup
                  [has : {TRUE}, cam3d : BOOLEAN, format : {"Standard"}, init : {DefaultSettings}]
      /\ w[2].has => w[1].has /\ w[1].format = "Hdr" }

\* The forward direction of a default GlobalTransform: -Z.
NegZ == [x |-> 0, y |-> 0, z |-> -10]

\* Forward directions of the camera's GlobalTransform (unit vectors, tenths).
Dirs ==
  { [x |-> 0, y |-> 10, z |-> 0], [x |-> 0, y |-> -10, z |-> 0],
    [x |-> 0, y |-> 0, z |-> -10], [x |-> 0, y |-> -6, z |-> -8] }

\* Vec3::Y
WorldUp == [x |-> 0, y |-> DirUnit, z |-> 0]

\* Vec3::dot
Dot(a, b) == (a.x * b.x + a.y * b.y + a.z * b.z) \div DirUnit

\* ---------------------------------------------------------------- the keys

Keys ==
  { "KeyQ", "KeyA", "KeyW", "KeyS", "KeyE", "KeyD", "KeyR", "KeyF",
    "KeyT", "KeyG", "KeyY", "KeyH", "KeyU", "KeyJ" }

\* The key states the model explores each frame.
KeySets == { {"KeyQ"}, {"KeyA", "KeyD"} }

VARIABLES
  mainPc,       \* position of the main app: build, finish, first, update, post, extract
  renderApp,    \* whether the render sub-application exists
  graphNodes,   \* render graph: the labels added to Core3d
  graphEdges,   \* render graph: the ordering edges added to Core3d
  pipelineRes,  \* the RainGlarePipeline resource: [present, layout, sampler, pipelines]
  cache,        \* PipelineCache: sequence of [format, state]
  clock,        \* Time: [elapsed, delta]
  ticks,        \* how many times the clock advanced
  world,        \* per entity: its spawn configuration
  settings,     \* main world: RainGlareSettings of the entities that carry one
  gt,           \* main world: forward direction of the GlobalTransform
  advDone,      \* advance_rain_time ran in this frame's Update
  tweakDone,    \* tweak_rain_glare_settings ran in this frame's Update
  wrote,        \* per entity: the intensity tweak wrote this frame, or NoValue
  timeLog,      \* per entity: its time field <<after the FrameUpdater before the last, after the last>>
  rPc,          \* position of the render app: idle, prepare, queue, graph
  rEnts,        \* render world: the entities extracted with RainGlareSettings
  rSettings,    \* render world: the extracted RainGlareSettings of rEnts
  uniforms,     \* ComponentUniforms: [allocated, buffer (sequence of records)]
  rIndex,       \* render world: DynamicUniformIndex per entity, or NoValue
  mainTex,      \* per view: ViewTarget's current main texture, 0 = a, 1 = b
  graphOrder,   \* the order in which this frame's graph run executes the nodes of Core3d
  pending,      \* views the graph runner has yet to run the node for
  cmds,         \* per view: the GPU commands the node recorded this frame
  result,       \* per view: what run returned this frame, or None
  snap          \* what held at the barrier: [elapsed, wrote, advanced, settings]

mainVars == <<mainPc, clock, ticks, settings, gt, advDone, tweakDone, wrote, timeLog>>
setupVars == <<renderApp, graphNodes, graphEdges, world>>
renderVars == <<rPc, rEnts, rSettings, uniforms, rIndex, mainTex, graphOrder, pending, cmds,
                result, snap>>
vars == <<mainVars, setupVars, renderVars, pipelineRes, cache>>

NoneFn == [e \in Entities |-> None]
NoValueFn == [e \in Entities |-> NoValue]

\* The entities carrying RainGlareSettings.
Has(e) == world[e].has

NoPipelineRes == [present |-> FALSE, layout |-> <<>>, sampler |-> None, pipelines |-> <<>>]

Init ==
  /\ mainPc = "build"
  /\ renderApp \in BOOLEAN
  /\ graphNodes = {"Tonemapping", "EndMainPassPostProcessing"}
  /\ graphEdges = {<<"Tonemapping", "EndMainPassPostProcessing">>}
  /\ pipelineRes = NoPipelineRes
  /\ cache = <<>>
  /\ clock = [elapsed |-> 0, delta |-> 0]
  /\ ticks = 0
  /\ world \in Worlds
  /\ settings = [e \in Entities |-> world[e].init]
  /\ gt = [e \in Entities |-> NegZ]
  /\ advDone = FALSE
  /\ tweakDone = FALSE
  /\ wrote = NoValueFn
  /\ timeLog = [e \in Entities |-> <<NoValue, NoValue>>]
  /\ rPc = "idle"
  /\ rEnts = {}
  /\ rSettings = [e \in Entities |-> DefaultSettings]
  /\ uniforms = [allocated |-> FALSE, buffer |-> <<>>]
  /\ rIndex = NoValueFn
  /\ mainTex = [e \in Entities |-> 0]
  /\ graphOrder = <<>>
  /\ pending = {}
  /\ cmds = [e \in Entities |-> <<>>]
  /\ result = NoneFn
  /\ snap = [elapsed |-> 0, wrote |-> NoValueFn, advanced |-> FALSE,
             settings |-> settings]

\* ------------------------------------------------------------------- setup

RainGlareLabel == "RainGlare"

\* A placement that orders the node after tone mapping only.
NodeEdgesAfterTonemappingOnly == { <<"Tonemapping", RainGlareLabel>> }

\* add_render_graph_edges(Core3d, (Tonemapping, RainGlareLabel,
\* EndMainPassPostProcessing)): an edge between each two neighbours.
NodeEdges ==
  { <<"Tonemapping", RainGlareLabel>>, <<RainGlareLabel, "EndMainPassPostProcessing">> }

\* RainGlarePlugin::build: the systems are added to the app; with a render
\* sub-app the node and its two edges are added to Core3d.
Build ==
  /\ mainPc = "build"
  /\ mainPc' = "finish"
  /\ IF renderApp
       THEN /\ graphNodes' = graphNodes \cup {RainGlareLabel}
            /\ graphEdges' = graphEdges \cup NodeEdges
       ELSE UNCHANGED <<graphNodes, graphEdges>>
  /\ UNCHANGED <<clock, ticks, settings, gt, advDone, tweakDone, wrote, timeLog,
                 renderApp, world, renderVars, pipelineRes, cache>>

\* PipelineCache::queue_render_pipeline: the descriptor is appended in state
\* Queued and its position is the id.
QueueRenderPipeline(c, format) == Append(c, [format |-> format, state |-> "Queued"])

\* The loop of from_world over the formats fmts[i..]: each format is queued
\* and its id inserted in the map.
RECURSIVE QueueFormats(_, _, _, _)
QueueFormats(fmts, i, c, m) ==
  IF i > Len(fmts) THEN [cache |-> c, pipelines |-> m]
  ELSE QueueFormats(fmts, i + 1, QueueRenderPipeline(c, fmts[i]),
                    (fmts[i] :> (Len(c) + 1)) @@ m)

\* An initialization that builds nothing and inserts no resource.
FromWorldNotInserted(c) == [cache |-> c, res |-> NoPipelineRes]

\* An initialization that queues the standard format only.
FromWorldStandardOnly(c) ==
  LET q == QueueFormats(<<"Standard">>, 1, c, <<>>)
  IN  [ cache |-> q.cache,
        res |-> [ present |-> TRUE,
                  layout |-> <<"texture_2d", "sampler", "uniform_buffer_dynamic">>,
                  sampler |-> "default",
                  pipelines |-> q.pipelines ] ]

\* impl FromWorld for RainGlarePipeline
FromWorld(c) ==
  LET q == QueueFormats(SupportedFormats, 1, c, <<>>)
  IN  [ cache |-> q.cache,
        res |-> [ present |-> TRUE,
                  layout |-> <<"texture_2d", "sampler", "uniform_buffer_dynamic">>,
                  sampler |-> "default",
                  pipelines |-> q.pipelines ] ]

\* RainGlarePlugin::finish: init_resource::<RainGlarePipeline>() on the
\* render sub-app, nothing without one.
Finish ==
  /\ mainPc = "finish"
  /\ mainPc' = "first"
  /\ IF renderApp
       THEN /\ pipelineRes' = FromWorld(cache).res
            /\ cache' = FromWorld(cache).cache
       ELSE UNCHANGED <<pipelineRes, cache>>
  /\ UNCHANGED <<clock, ticks, settings, gt, advDone, tweakDone, wrote, timeLog,
                 setupVars, renderVars>>

\* A lookup that only knows the first format queued.
PipelineForFormatFirstOnly(res, format) ==
  IF format \in DOMAIN res.pipelines /\ format = SupportedFormats[1]
    THEN res.pipelines[format] ELSE NoId

\* RainGlarePipeline::pipeline_for_format
PipelineForFormat(res, format) ==
  IF format \in DOMAIN res.pipelines THEN res.pipelines[format] ELSE NoId

\* A cache that hands out a pipeline whether or not it is realized.
GetRenderPipelineUnchecked(c, id) == IF id \in 1..Len(c) THEN id ELSE NoId

\* PipelineCache::get_render_pipeline: the pipeline only once it is realized.
GetRenderPipeline(c, id) ==
  IF id \in 1..Len(c) /\ c[id].state = "Ok" THEN id ELSE NoId

\* -------------------------------------------------------- the update phase

\* The engine advances Time at the start of the frame; the clock never goes
\* back: it advances by a tick in each of the first MaxTicks frames and
\* stands still (delta = 0) in the frames after.
First ==
  /\ mainPc = "first"
  /\ mainPc' = "update"
  /\ LET d == IF ticks < MaxTicks THEN TickDelta ELSE 0
     IN  /\ clock' = [elapsed |-> clock.elapsed + d, delta |-> d]
         /\ ticks' = IF d > 0 THEN ticks + 1 ELSE ticks
  /\ advDone' = FALSE
  /\ tweakDone' = FALSE
  /\ wrote' = NoValueFn
  /\ UNCHANGED <<settings, gt, timeLog, setupVars, renderVars, pipelineRes, cache>>

\* An angle factor computed without the absolute value.
AngleFactorNoAbs(forward) ==
  LET vertical == Dot(forward, WorldUp)
      horizon  == Clamp(DirUnit - vertical, 0, DirUnit)
  IN  horizon * horizon

\* An angle factor that adds the vertical part and does not clamp.
AngleFactorAddedUnclamped(forward) ==
  LET vertical == Dot(forward, WorldUp)
      horizon  == DirUnit + Abs(vertical)
  IN  horizon * horizon

\* The angle factor advance_rain_time computes from the forward direction.
AngleFactor(forward) ==
  LET vertical == Dot(forward, WorldUp)
      horizon  == Clamp(DirUnit - Abs(vertical), 0, DirUnit)
  IN  horizon * horizon

\* A FrameUpdater that takes the frame's delta for the elapsed time.
AdvancedTimeDelta(c) == c.delta

\* The value advance_rain_time writes to the time field: time.elapsed_seconds().
AdvancedTime(c) == c.elapsed

\* A query without the Camera3d filter.
AdvanceQueryUnfiltered == {e \in Entities : Has(e)}

\* The entities advance_rain_time's query matches.
AdvanceQuery == {e \in Entities : Has(e) /\ world[e].cam3d}

\* A FrameUpdater that also scales the intensity by the angle factor.
AdvancedScalingIntensity(s, c, forward) ==
  [s EXCEPT !.time = AdvancedTime(c),
            !.view_angle_factor = AngleFactor(forward),
            !.intensity = (s.intensity * AngleFactor(forward)) \div Unit]

\* The body of advance_rain_time for one record.
Advanced(s, c, forward) ==
  [s EXCEPT !.time = AdvancedTime(c), !.view_angle_factor = AngleFactor(forward)]

\* advance_rain_time
AdvanceRainTime ==
  /\ mainPc = "update"
  /\ ~advDone
  /\ advDone' = TRUE
  /\ settings' =
       [e \in Entities |->
          IF e \in AdvanceQuery
            THEN Advanced(settings[e], clock, gt[e])
            ELSE settings[e]]
  /\ timeLog' =
       [e \in Entities |->
          IF e \in AdvanceQuery
            THEN <<timeLog[e][2], settings'[e].time>>
            ELSE timeLog[e]]
  /\ UNCHANGED <<mainPc, clock, ticks, gt, tweakDone, wrote,
                 setupVars, renderVars, pipelineRes, cache>>

\* keys.pressed(k) adds or subtracts the step.
Nudge(v, keys, up, down, step) ==
  LET a == IF up \in keys THEN v + step ELSE v
  IN  IF down \in keys THEN a - step ELSE a

\* A tweak step that nudges the intensity and keeps its own running time.
TweakedWithTime(s, keys, dt) ==
  [ s EXCEPT
      !.intensity =
         Clamp(Nudge(s.intensity, keys, "KeyQ", "KeyA", (60 * dt) \div Unit), 0, 400),
      !.time = s.time + dt ]

\* The body of tweak_rain_glare_settings for one record.
Tweaked(s, keys, dt) ==
  LET step_small == (60 * dt) \div Unit
      step_large == 60 * dt
  IN  [ s EXCEPT
          !.intensity = Clamp(Nudge(s.intensity, keys, "KeyQ", "KeyA", step_small), 0, 400),
          !.threshold = Clamp(Nudge(s.threshold, keys, "KeyW", "KeyS", step_small), 0, 400),
          !.streak_length_px =
             Clamp(Nudge(s.streak_length_px, keys, "KeyE", "KeyD", step_large), 100, 40000),
          !.rain_density = Clamp(Nudge(s.rain_density, keys, "KeyR", "KeyF", step_small), 0, 1000),
          !.wind = << Clamp(Nudge(s.wind[1], keys, "KeyT", "KeyG", step_small), -300, 300),
                      Clamp(Nudge(s.wind[2], keys, "KeyY", "KeyH", step_small), -300, 300) >>,
          !.speed = Clamp(Nudge(s.speed, keys, "KeyU", "KeyJ", step_small), 0, 2000) ]

\* tweak_rain_glare_settings (the demo's system)
TweakRainGlareSettings ==
  /\ mainPc = "update"
  /\ ~tweakDone
  /\ tweakDone' = TRUE
  /\ \E keys \in KeySets :
       settings' =
         [e \in Entities |->
            IF Has(e) THEN Tweaked(settings[e], keys, clock.delta)
            ELSE settings[e]]
  /\ wrote' = [e \in Entities |-> IF Has(e) THEN settings'[e].intensity ELSE NoValue]
  /\ UNCHANGED <<mainPc, clock, ticks, gt, advDone, timeLog,
                 setupVars, renderVars, pipelineRes, cache>>

\* An Update schedule that the extract step does not wait for.
UpdateScheduleNotAwaited == TRUE

\* The Update schedule has run every system added to it.
UpdateScheduleDone == advDone /\ tweakDone

\* PostUpdate follows Update: transform propagation gives the cameras their
\* new GlobalTransform (the cameras turn together).
PostUpdate ==
  /\ mainPc = "update"
  /\ UpdateScheduleDone
  /\ mainPc' = "extract"
  /\ \E d \in Dirs : gt' = [e \in Entities |-> IF e \in AdvanceQuery THEN d ELSE gt[e]]
  /\ UNCHANGED <<clock, ticks, settings, advDone, tweakDone, wrote, timeLog,
                 setupVars, renderVars, pipelineRes, cache>>

\* -------------------------------------------------------------- the barrier

\* An extraction that clones the components as they were spawned.
ExtractComponentsAsSpawned ==
  [ents |-> {e \in Entities : Has(e)}, values |-> [e \in Entities |-> world[e].init]]

\* An extraction that visits the Camera3d entities only.
ExtractComponentsCamerasOnly ==
  [ents |-> {e \in Entities : Has(e) /\ world[e].cam3d}, values |-> settings]

\* ExtractComponentPlugin::<RainGlareSettings>: the extract step clones the
\* component of every entity carrying it into the render world.
ExtractComponents == [ents |-> {e \in Entities : Has(e)}, values |-> settings]

\* The extract step runs between the main app's frame and the render app's,
\* once the render app is done with the frame before; the main app then goes
\* on to its next frame while the render app renders this one.
Extract ==
  /\ mainPc = "extract"
  /\ mainPc' = "first"
  /\ IF renderApp
       THEN /\ rPc = "idle"
            /\ rPc' = "prepare"
            /\ rEnts' = ExtractComponents.ents
            /\ rSettings' = ExtractComponents.values
            /\ snap' = [elapsed |-> clock.elapsed, wrote |-> wrote, advanced |-> advDone,
                        settings |-> settings]
       ELSE UNCHANGED <<rPc, rEnts, rSettings, snap>>
  /\ UNCHANGED <<clock, ticks, settings, gt, advDone, tweakDone, wrote, timeLog,
                 setupVars, uniforms, rIndex, mainTex, graphOrder, pending, cmds,
                 result, pipelineRes, cache>>

\* --------------------------------------------------------- the render phase

\* min_uniform_buffer_offset_alignment: the stride of the dynamic uniform
\* buffer's slots, in bytes.
Alignment == 256

\* The orders in which a query may visit the entities of S.
Orders(S) ==
  {o \in [1..Cardinality(S) -> S] : \A i, j \in 1..Cardinality(S) : o[i] = o[j] => i = j}

\* The dynamic offset the writer returns for the i-th record written.
WriterOffset(i) == (i - 1) * Alignment

\* The record a bind group with dynamic offset off reads from the buffer.
UniformAt(u, off) == u.buffer[(off \div Alignment) + 1]

\* UniformComponentPlugin::<RainGlareSettings>: prepare_uniform_components
\* writes every extracted component to the buffer, in the query's order, and
\* gives each entity the offset of its record. Without components and
\* without a buffer there is no writer and nothing happens.
PrepareUniformComponents(order) ==
  IF Len(order) = 0 /\ ~uniforms.allocated
    THEN UNCHANGED <<uniforms, rIndex>>
    ELSE /\ uniforms' =
              [ allocated |-> TRUE,
                buffer |-> IF Len(order) = 0 THEN uniforms.buffer
                           ELSE [i \in 1..Len(order) |-> rSettings[order[i]]] ]
         /\ rIndex' =
              [e \in Entities |->
                 IF e \in rEnts
                   THEN WriterOffset(CHOOSE i \in 1..Len(order) : order[i] = e)
                   ELSE NoValue]

\* The render app's prepare step.
Prepare ==
  /\ rPc = "prepare"
  /\ rPc' = "queue"
  /\ \E order \in Orders(rEnts) : PrepareUniformComponents(order)
  /\ UNCHANGED <<mainVars, setupVars, rEnts, rSettings, mainTex, graphOrder, pending,
                 cmds, result, snap, pipelineRes, cache>>

\* PipelineCache::process_queue: a pipeline that is queued (or still
\* compiling) becomes realized.
CompileStep(id) ==
  /\ rPc = "queue"
  /\ id \in 1..Len(cache)
  /\ cache[id].state # "Ok"
  /\ cache' = [cache EXCEPT ![id].state = "Ok"]
  /\ UNCHANGED <<mainVars, setupVars, renderVars, pipelineRes>>

\* The views ViewNodeRunner runs the node for: the cameras of Core3d whose
\* entity matches the ViewQuery (ViewTarget, RainGlareSettings,
\* DynamicUniformIndex), if the node is in the graph.
Views ==
  IF RainGlareLabel \in graphNodes
    THEN {e \in Entities : world[e].cam3d /\ e \in rEnts /\ rIndex[e] # NoValue}
    ELSE {}

\* The position of a label in an order.
Pos(o, label) == CHOOSE i \in DOMAIN o : o[i] = label

\* The orders in which the graph runner may execute the nodes: every node
\* after the nodes it has an edge from.
GraphOrders(nodes, edges) ==
  {o \in Orders(nodes) : \A ed \in edges : Pos(o, ed[1]) < Pos(o, ed[2])}

\* The graph run starts, in one of the orders the edges allow: the stages
\* before the node have run for every view, leaving either main texture
\* current.
StartGraph ==
  /\ rPc = "queue"
  /\ rPc' = "graph"
  /\ graphOrder' \in GraphOrders(graphNodes, graphEdges)
  /\ pending' = Views
  /\ \E t \in {0, 1} : mainTex' = [e \in Entities |-> IF e \in Views THEN t ELSE 0]
  /\ UNCHANGED <<mainVars, setupVars, rEnts, rSettings, uniforms, rIndex, cmds,
                 result, snap, pipelineRes, cache>>

\* ------------------------------------------------------------------ the node

\* ViewTarget::post_process_write: the current main texture is the source,
\* the other one the destination, and the destination becomes current.
PostProcessWrite(tex) == [source |-> tex, destination |-> 1 - tex, main |-> 1 - tex]

\* ComponentUniforms::uniforms().binding(): the buffer, once there is one.
Binding(u) == IF u.allocated THEN "uniform_buffer" ELSE None

\* An early return taken after post_process_write has swapped the textures.
SkipAfterWrite(tex) == [result |-> "Ok", main |-> 1 - tex, cmds |-> <<>>]

\* An execution that returns Ok(()) before recording anything.
Skip(tex) == [result |-> "Ok", main |-> tex, cmds |-> <<>>]

\* A pass that binds the uniform buffer without the view's dynamic offset.
DrawCommandsOffsetZero(render_pipeline, binding, pp, index) ==
  << [op |-> "begin_render_pass", view |-> pp.destination, depth_stencil |-> None],
     [op |-> "set_render_pipeline", pipeline |-> render_pipeline],
     [op |-> "set_bind_group", group |-> 0, layout |-> pipelineRes.layout,
      source |-> pp.source, sampler |-> pipelineRes.sampler, buffer |-> binding, offset |-> 0],
     [op |-> "draw", vertices |-> 3, instances |-> 1] >>

\* A pass that draws one vertex more than the full-screen triangle has.
DrawCommandsFourVertices(render_pipeline, binding, pp, index) ==
  << [op |-> "begin_render_pass", view |-> pp.destination, depth_stencil |-> None],
     [op |-> "set_render_pipeline", pipeline |-> render_pipeline],
     [op |-> "set_bind_group", group |-> 0, layout |-> pipelineRes.layout,
      source |-> pp.source, sampler |-> pipelineRes.sampler, buffer |-> binding, offset |-> index],
     [op |-> "draw", vertices |-> 4, instances |-> 1] >>

\* The commands of the pass: begin_tracked_render_pass, set_render_pipeline,
\* set_bind_group with the view's dynamic offset, draw(0..3, 0..1).
DrawCommands(render_pipeline, binding, pp, index) ==
  << [op |-> "begin_render_pass", view |-> pp.destination, depth_stencil |-> None],
     [op |-> "set_render_pipeline", pipeline |-> render_pipeline],
     [op |-> "set_bind_group", group |-> 0, layout |-> pipelineRes.layout,
      source |-> pp.source, sampler |-> pipelineRes.sampler, buffer |-> binding, offset |-> index],
     [op |-> "draw", vertices |-> 3, instances |-> 1] >>

\* RainGlareNode::run for a view of the given format, current main texture
\* and dynamic uniform index.
Run(res, c, u, format, tex, index) ==
  IF ~res.present THEN [result |-> "Panic", main |-> tex, cmds |-> <<>>]
  ELSE
    LET pipeline_id == PipelineForFormat(res, format)
        render_pipeline == GetRenderPipeline(c, pipeline_id)
        binding == Binding(u)
        pp == PostProcessWrite(tex)
    IN  IF pipeline_id = NoId THEN Skip(tex)
        ELSE IF render_pipeline = NoId THEN Skip(tex)
        ELSE IF binding = None THEN Skip(tex)
        ELSE [ result |-> "Ok", main |-> pp.main,
               cmds |-> DrawCommands(render_pipeline, binding, pp, index) ]

\* A node that queues a pipeline of its own for a format it does not find.
WorldAfterRunRebuilding(e) ==
  [ pipelineRes |->
      IF world[e].format \in DOMAIN pipelineRes.pipelines THEN pipelineRes
      ELSE [pipelineRes EXCEPT !.pipelines = (world[e].format :> 1) @@ @],
    uniforms |-> uniforms ]

\* What the world holds after the node ran: run takes &World and changes
\* neither the RainGlarePipeline resource nor the uniforms.
WorldAfterRun(e) == [pipelineRes |-> pipelineRes, uniforms |-> uniforms]

\* ViewNodeRunner runs the node for the view e.
NodeRun(e) ==
  /\ rPc = "graph"
  /\ e \in pending
  /\ pending' = pending \ {e}
  /\ LET r == Run(pipelineRes, cache, uniforms, world[e].format, mainTex[e], rIndex[e])
     IN  /\ result' = [result EXCEPT ![e] = r.result]
         /\ cmds' = [cmds EXCEPT ![e] = r.cmds]
         /\ mainTex' = [mainTex EXCEPT ![e] = r.main]
  /\ pipelineRes' = WorldAfterRun(e).pipelineRes
  /\ uniforms' = WorldAfterRun(e).uniforms
  /\ UNCHANGED <<mainVars, setupVars, rPc, rEnts, rSettings, rIndex, graphOrder, snap, cache>>

\* The render app's frame ends: the commands are submitted and the render
\* world's entities are cleared; the buffer stays.
EndRender ==
  /\ rPc = "graph"
  /\ pending = {}
  /\ rPc' = "idle"
  /\ graphOrder' = <<>>
  /\ rEnts' = {}
  /\ rIndex' = NoValueFn
  /\ cmds' = [e \in Entities |-> <<>>]
  /\ result' = NoneFn
  /\ mainTex' = [e \in Entities |-> 0]
  /\ UNCHANGED <<mainVars, setupVars, rSettings, uniforms, pending, snap,
                 pipelineRes, cache>>

\* ------------------------------------------------------- the specifications

Next ==
  \/ Build
  \/ Finish
  \/ First
  \/ AdvanceRainTime
  \/ TweakRainGlareSettings
  \/ PostUpdate
  \/ Extract
  \/ Prepare
  \/ \E id \in 1..2 : CompileStep(id)
  \/ StartGraph
  \/ \E e \in Entities : NodeRun(e)
  \/ EndRender

Spec == Init /\ [][Next]_vars

\* Weak fairness of the frame loop, and the assumption that a compilation
\* eventually finishes.
FairSpec ==
  /\ Spec
  /\ WF_vars(Next)
  /\ \A id \in 1..2 : SF_vars(CompileStep(id))

\* --------------------------------------------------------------- properties

\* The node ran for the view e in the render app's current frame.
Executed(e) == result[e] # None

\* The execution for e recorded a pass.
IsDraw(e) == Executed(e) /\ cmds[e] # <<>>

\* The execution for e recorded nothing.
IsSkip(e) == Executed(e) /\ cmds[e] = <<>>

\* The map has an entry for e's format; the entry's pipeline is realized.
FormatKnown(e) == world[e].format \in DOMAIN pipelineRes.pipelines
Realized(e) == FormatKnown(e) /\ cache[pipelineRes.pipelines[world[e].format]].state = "Ok"

\* The positions of the draw calls among e's commands.
DrawCalls(e) == {i \in DOMAIN cmds[e] : cmds[e][i].op = "draw"}
PassBegins(e) == {i \in DOMAIN cmds[e] : cmds[e][i].op = "begin_render_pass"}

\* The record the pass of e reads through its bind group.
BoundOffset(e) == cmds[e][3].offset
BoundUniform(e) == UniformAt(uniforms, BoundOffset(e))

\* The uniform storage before any record was synchronized into it.
NoUniforms == [allocated |-> FALSE, buffer |-> <<>>]

\* C1: an execution for a view whose format has no entry in the map, or whose
\* pipeline is not yet realized, or for which there is no uniform binding,
\* returns Ok having issued no draw call and begun no render pass. (No view
\* runs the node while the storage has no binding, so that case is stated
\* of run itself, with the resource and the cache as they are.)
C1_UnmetPreconditionSkips ==
  /\ \A e \in Entities :
       (Executed(e) /\ (~FormatKnown(e) \/ ~Realized(e) \/ ~uniforms.allocated))
         => /\ result[e] = "Ok"
            /\ DrawCalls(e) = {}
            /\ PassBegins(e) = {}
  /\ pipelineRes.present =>
       \A f \in Formats, tex \in {0, 1} :
         LET r == Run(pipelineRes, cache, NoUniforms, f, tex, 0)
         IN  r.result = "Ok" /\ r.cmds = <<>> /\ r.main = tex

C1_Witness ==
  \E e \in Entities : Executed(e) /\ FormatKnown(e) /\ ~Realized(e) /\ IsSkip(e)

\* C2: an execution is a Skip (no command at all) when a precondition is
\* unmet, and otherwise a Draw with exactly one draw call, of 3 vertices and
\* 1 instance, in exactly one pass; it never fails.
C2_SkipOrSingleDraw ==
  \A e \in Entities :
    Executed(e) =>
      /\ result[e] = "Ok"
      /\ IF Realized(e) /\ uniforms.allocated
           THEN /\ Cardinality(DrawCalls(e)) = 1
                /\ Cardinality(PassBegins(e)) = 1
                /\ \A i \in DrawCalls(e) :
                     /\ cmds[e][i].vertices = 3
                     /\ cmds[e][i].instances = 1
                     /\ i = Len(cmds[e])
           ELSE cmds[e] = <<>>

C2_Witness ==
  \E e \in Entities : Executed(e) /\ Realized(e) /\ Cardinality(DrawCalls(e)) = 1

\* C3: the intensity the tweak step wrote in a frame's update phase is the
\* intensity the pass of that frame reads for the view.
C3_ZeroFrameLag ==
  \A e \in Entities :
    (IsDraw(e) /\ snap.wrote[e] # NoValue)
      => BoundUniform(e).intensity = snap.wrote[e]

\* A pass reads a written value that is neither the spawned one nor the one
\* the main world holds by now (it is already in its next frame).
C3_Witness ==
  \E e \in Entities :
    /\ IsDraw(e)
    /\ snap.wrote[e] # NoValue
    /\ snap.wrote[e] # world[e].init.intensity
    /\ snap.wrote[e] # settings[e].intensity
    /\ BoundUniform(e).intensity = snap.wrote[e]

\* C4: whenever the render app works on a frame, the snapshot it works on
\* was taken after that frame's FrameUpdater; a pass reads a record the sync
\* wrote, and its time is the clock of the frame the snapshot was taken in.
C4_UpdateSyncNodeOrder ==
  /\ rPc # "idle" => snap.advanced
  /\ \A e \in Entities :
       Executed(e) => /\ rPc = "graph"
                      /\ snap.advanced
  /\ \A e \in Entities :
       IsDraw(e) => /\ (BoundOffset(e) \div Alignment) + 1 \in DOMAIN uniforms.buffer
                    /\ BoundUniform(e).time = snap.elapsed

\* A pass reads the time of its frame while the main world is in a later one.
C4_Witness ==
  \E e \in Entities :
    /\ IsDraw(e)
    /\ BoundUniform(e).time = snap.elapsed
    /\ snap.elapsed > 0
    /\ clock.elapsed > snap.elapsed

\* C5: the entities synchronized in a frame have distinct dynamic offsets,
\* and a pass reads, at its view's offset, that view's own record.
C5_InstanceIsolation ==
  /\ \A e1, e2 \in Entities :
       (e1 # e2 /\ rIndex[e1] # NoValue /\ rIndex[e2] # NoValue)
         => rIndex[e1] # rIndex[e2]
  /\ \A e \in Entities :
       IsDraw(e) => /\ BoundOffset(e) = rIndex[e]
                    /\ BoundUniform(e) = rSettings[e]

\* Two views drew in the same frame, each reading its own, different record.
C5_Witness ==
  \E e1, e2 \in Entities :
    /\ e1 # e2
    /\ IsDraw(e1)
    /\ IsDraw(e2)
    /\ rSettings[e1] # rSettings[e2]
    /\ BoundUniform(e1) = rSettings[e1]
    /\ BoundUniform(e2) = rSettings[e2]

\* The render app has a view for e: a Camera3d carrying the settings.
IsView(e) == renderApp /\ world[e].has /\ world[e].cam3d

\* The formats from_world queues a pipeline for.
Supported(format) == \E i \in DOMAIN SupportedFormats : SupportedFormats[i] = format

\* The node runs for e in this step.
RunsNode(e) == e \in pending /\ e \notin pending'

\* C6: a realized pipeline stays realized, every execution for a view whose
\* pipeline is realized is a Draw, and, compilation eventually finishing, a
\* view with a supported format eventually gets a Draw.
C6_SkipResolvesItself ==
  /\ [][\A id \in DOMAIN cache : cache[id].state = "Ok" => cache'[id].state = "Ok"]_vars
  /\ [][\A e \in Entities : (RunsNode(e) /\ Realized(e)) => IsDraw(e)']_vars
  /\ \A e \in Entities :
       (IsView(e) /\ Supported(world[e].format)) ~> (IsDraw(e) /\ Realized(e))

\* A view draws, its pipeline realized, in a frame in which another view is
\* still skipped for a pipeline that is not.
C6_Witness ==
  \E e \in Entities :
    /\ IsDraw(e)
    /\ Realized(e)
    /\ \E e2 \in Entities : e2 # e /\ IsSkip(e2) /\ FormatKnown(e2)

\* C7: once initialization is over, the map has an entry for each of the two
\* supported formats, naming a pipeline of that format which the cache hands
\* out once it is realized, and no entry for any other format.
C7_PipelineForFormat ==
  (renderApp /\ mainPc \notin {"build", "finish"}) =>
    /\ \A f \in Formats :
         IF Supported(f)
           THEN LET id == PipelineForFormat(pipelineRes, f)
                IN  /\ id # NoId
                    /\ id \in DOMAIN cache
                    /\ cache[id].format = f
                    /\ cache[id].state = "Ok" => GetRenderPipeline(cache, id) = id
           ELSE PipelineForFormat(pipelineRes, f) = NoId
    /\ PipelineForFormat(pipelineRes, "Standard") # PipelineForFormat(pipelineRes, "Hdr")

C7_Witness ==
  /\ renderApp
  /\ mainPc = "update"
  /\ \A id \in DOMAIN cache : cache[id].state = "Ok"
  /\ GetRenderPipeline(cache, PipelineForFormat(pipelineRes, "Hdr")) # NoId
  /\ GetRenderPipeline(cache, PipelineForFormat(pipelineRes, "Standard")) # NoId

\* C8: once initialization is over, no step changes the RainGlarePipeline
\* resource: its map, its layout and its sampler stay as built.
C8_PipelinesImmutable ==
  [][mainPc \notin {"build", "finish"} => pipelineRes' = pipelineRes]_vars

\* The resource as built, after a frame in which one view was skipped for
\* its format.
C8_Witness ==
  /\ pipelineRes = FromWorld(<<>>).res
  /\ \E e \in Entities : IsSkip(e) /\ ~FormatKnown(e)
  /\ ticks > 0

\* C9: the time of a camera after a frame's FrameUpdater is at least its
\* time after the FrameUpdater of the frame before.
C9_TimeNonDecreasing ==
  \A e \in Entities :
    /\ timeLog[e][1] # NoValue => timeLog[e][1] <= timeLog[e][2]
    /\ (e \in AdvanceQuery /\ advDone) => settings[e].time = timeLog[e][2]

C9_Witness ==
  \E e \in Entities :
    /\ timeLog[e][1] # NoValue
    /\ timeLog[e][1] < timeLog[e][2]
    /\ settings[e].time = timeLog[e][2]

\* C10: after the FrameUpdater, view_angle_factor is the square of
\* 1 - |forward.y| for the camera's current forward direction, whatever it
\* was before: 0 when forward is world-up or its negation, 1 when forward is
\* orthogonal to world-up.
C10_ViewAngleFactor ==
  (mainPc = "update" /\ advDone) =>
    \A e \in AdvanceQuery :
      LET y == gt[e].y
          f == settings[e].view_angle_factor
      IN  /\ (y = 10 \/ y = -10) => f = 0
          /\ y = 0 => f = 100
          /\ 100 * f = (10 - Abs(y)) * (10 - Abs(y)) * 100

\* The factor went to 0 for a camera looking straight down.
C10_Witness ==
  /\ mainPc = "update"
  /\ advDone
  /\ \E e \in AdvanceQuery :
       /\ gt[e] = [x |-> 0, y |-> -10, z |-> 0]
       /\ settings[e].view_angle_factor = 0

\* The node of label a runs before the node of label b in the order o.
RunsBefore(o, a, b) ==
  /\ \E i \in DOMAIN o : o[i] = a
  /\ \E i \in DOMAIN o : o[i] = b
  /\ Pos(o, a) < Pos(o, b)

\* C11: once the plugin is built on a render app, the node has an edge from
\* tone mapping and an edge to the end of post-processing, so that in every
\* order the graph may be run in, and in the order of every graph run in
\* which the node executes, tone mapping runs before the node and the node
\* before the end of post-processing.
C11_GraphPlacement ==
  /\ (renderApp /\ mainPc # "build") =>
       /\ RainGlareLabel \in graphNodes
       /\ <<"Tonemapping", RainGlareLabel>> \in graphEdges
       /\ <<RainGlareLabel, "EndMainPassPostProcessing">> \in graphEdges
       /\ \A o \in GraphOrders(graphNodes, graphEdges) :
            /\ RunsBefore(o, "Tonemapping", RainGlareLabel)
            /\ RunsBefore(o, RainGlareLabel, "EndMainPassPostProcessing")
  /\ \A e \in Entities :
       Executed(e) =>
         /\ RunsBefore(graphOrder, "Tonemapping", RainGlareLabel)
         /\ RunsBefore(graphOrder, RainGlareLabel, "EndMainPassPostProcessing")

\* The node drew for a view in a graph run ordered tone mapping, node, end.
C11_Witness ==
  /\ graphOrder = <<"Tonemapping", RainGlareLabel, "EndMainPassPostProcessing">>
  /\ \E e \in Entities : IsDraw(e)

\* C12: an execution that draws swaps the view's main textures exactly once:
\* the pass reads the texture that was current and writes the other one,
\* which is current afterwards; an execution that skips leaves the current
\* texture as it was. No execution touches another view's textures.
C12_SwapIffDraw ==
  [][\A e \in Entities :
       RunsNode(e) =>
         /\ IF IsDraw(e)'
              THEN /\ mainTex'[e] = 1 - mainTex[e]
                   /\ cmds'[e][1].view = mainTex'[e]
                   /\ cmds'[e][3].source = mainTex[e]
              ELSE /\ IsSkip(e)'
                   /\ mainTex'[e] = mainTex[e]
         /\ \A o \in Entities \ {e} : mainTex'[o] = mainTex[o]]_vars

\* One view drew into the texture that is now current, while another view
\* skipped.
C12_Witness ==
  \E e, e2 \in Entities :
    /\ IsDraw(e)
    /\ cmds[e][1].view = mainTex[e]
    /\ cmds[e][3].source = 1 - mainTex[e]
    /\ IsSkip(e2)

\* C13: view_angle_factor is within [0, 1] in every record, in the main world
\* and in the render world, at creation and after every FrameUpdater.
C13_AngleFactorInRange ==
  \A e \in Entities :
    /\ Has(e) => (0 <= settings[e].view_angle_factor /\ settings[e].view_angle_factor <= Unit)
    /\ e \in rEnts =>
         (0 <= rSettings[e].view_angle_factor /\ rSettings[e].view_angle_factor <= Unit)
    /\ world[e].init = DefaultSettings => world[e].init.view_angle_factor = Unit

\* A FrameUpdater left a factor strictly between 0 and 1.
C13_Witness ==
  /\ advDone
  /\ \E e \in AdvanceQuery :
       /\ gt[e].y = -6
       /\ settings[e].view_angle_factor = 16

\* The fields of a RainGlareSettings record.
FieldNames ==
  { "intensity", "threshold", "streak_length_px", "rain_density", "wind", "speed",
    "time", "pattern_scale", "mask_thickness_px", "snap_to_pixel", "tail_quant_steps",
    "view_angle_factor" }

\* The sync step: the extract that ends the main app's frame.
IsSync == mainPc = "extract" /\ mainPc' = "first" /\ renderApp

\* C14: in the frame the render app works on, every entity carrying the
\* settings has a record in the render world and a slot in the uniform
\* storage, both equal in all 12 fields to its main-world record at the
\* barrier; the sync does not change the main-world records, and no
\* execution of the node changes the snapshot.
C14_OneWaySnapshot ==
  /\ [](rPc # "idle" =>
          \A e \in Entities :
            Has(e) => /\ e \in rEnts
                      /\ DOMAIN rSettings[e] = FieldNames
                      /\ \A f \in FieldNames : rSettings[e][f] = snap.settings[e][f])
  /\ [](rPc \in {"queue", "graph"} =>
          \A e \in Entities :
            Has(e) => /\ rIndex[e] # NoValue
                      /\ \A f \in FieldNames :
                           UniformAt(uniforms, rIndex[e])[f] = snap.settings[e][f])
  /\ [][IsSync => settings' = settings]_vars
  /\ [][(\E e \in Entities : RunsNode(e))
          => (uniforms' = uniforms /\ rSettings' = rSettings /\ rIndex' = rIndex)]_vars

\* A slot holds the barrier's record of an entity that is no camera, while
\* the main world has already changed that record.
C14_Witness ==
  \E e \in Entities :
    /\ Has(e)
    /\ ~world[e].cam3d
    /\ rPc = "graph"
    /\ UniformAt(uniforms, rIndex[e]) = snap.settings[e]
    /\ settings[e] # snap.settings[e]

\* C15: a record created without overrides has the documented defaults:
\* intensity 0.35, threshold 0.65, streak_length_px 96, rain_density 0.55,
\* wind (0.10, 1.0), speed 1.2, time 0, pattern_scale 3, mask_thickness_px
\* 0.75, snap_to_pixel 1, tail_quant_steps 8, view_angle_factor 1; and the
\* fields the demo does not override keep them.
C15_Defaults ==
  mainPc = "build" =>
    \A e \in Entities :
      /\ (Has(e) /\ world[e].init = DefaultSettings) =>
           /\ DOMAIN settings[e] = FieldNames
           /\ settings[e].intensity = 35
           /\ settings[e].threshold = 65
           /\ settings[e].streak_length_px = 9600
           /\ settings[e].rain_density = 55
           /\ settings[e].wind = <<10, 100>>
           /\ settings[e].speed = 120
           /\ settings[e].time = 0
           /\ settings[e].pattern_scale = 300
           /\ settings[e].mask_thickness_px = 75
           /\ settings[e].snap_to_pixel = 100
           /\ settings[e].tail_quant_steps = 800
           /\ settings[e].view_angle_factor = 100
      /\ Has(e) => (settings[e].time = 0 /\ settings[e].view_angle_factor = 100)

\* An entity was spawned with the defaults.
C15_Witness ==
  /\ mainPc = "build"
  /\ \E e \in Entities :
       Has(e) /\ world[e].init = DefaultSettings /\ settings[e].streak_length_px = 9600

\* ------------------------------------------------ the uniform byte layout

RECURSIVE Pow2(_)
Pow2(n) == IF n = 0 THEN 1 ELSE 2 * Pow2(n - 1)

\* e is the binary exponent of a / Unit: 2^e <= a / Unit < 2^(e+1).
IsExponent(a, e) ==
  IF e >= 0
    THEN Unit * Pow2(e) <= a /\ a < Unit * Pow2(e + 1)
    ELSE Unit <= a * Pow2(-e) /\ a * Pow2(-e) < 2 * Unit

\* The 24-bit significand of the f32 nearest to a / Unit (ties to even); it
\* is 2^24 when rounding carries into the next exponent.
Significand(a, e) ==
  LET prod == a * Pow2(23 - e)
      q    == prod \div Unit
      r    == prod % Unit
  IN  IF 2 * r > Unit \/ (2 * r = Unit /\ q % 2 = 1) THEN q + 1 ELSE q

\* f32::to_le_bytes of the f32 nearest to n / Unit: sign bit, 8 exponent
\* bits biased by 127, 23 fraction bits, least significant byte first.
F32ToLeBytes(n) ==
  IF n = 0 THEN <<0, 0, 0, 0>>
  ELSE LET a     == Abs(n)
           e     == CHOOSE x \in -7..15 : IsExponent(a, x)
           sig   == Significand(a, e)
           carry == sig = Pow2(24)
           E     == IF carry THEN e + 128 ELSE e + 127
           frac  == IF carry THEN 0 ELSE sig - Pow2(23)
           sign  == IF n < 0 THEN 1 ELSE 0
       IN  << frac % 256, (frac \div 256) % 256,
              (frac \div 65536) + 128 * (E % 2), 128 * sign + (E \div 2) >>

\* The fields of RainGlareSettings with wind declared after speed.
SettingsFieldsWindAfterSpeed ==
  << "intensity", "threshold", "streak_length_px", "rain_density", "speed", "wind",
     "time", "pattern_scale", "mask_thickness_px", "snap_to_pixel", "tail_quant_steps",
     "view_angle_factor" >>

\* The fields of RainGlareSettings in declaration order.
SettingsFields ==
  << "intensity", "threshold", "streak_length_px", "rain_density", "wind", "speed",
     "time", "pattern_scale", "mask_thickness_px", "snap_to_pixel", "tail_quant_steps",
     "view_angle_factor" >>

\* Size and alignment of a field in the shader's address space: f32 is 4
\* bytes aligned to 4, Vec2 is 8 bytes aligned to 8.
FieldSize(f) == IF f = "wind" THEN 8 ELSE 4

FieldAlign(f) == IF f = "wind" THEN 8 ELSE 4

RoundUp(n, a) == ((n + a - 1) \div a) * a

\* n zero bytes.
Padding(n) == [i \in 1..n |-> 0]

\* The bytes of one field: a Vec2 is its x then its y.
FieldBytes(s, f) ==
  IF f = "wind" THEN F32ToLeBytes(s.wind[1]) \o F32ToLeBytes(s.wind[2])
  ELSE F32ToLeBytes(s[f])

\* The bytes written so far, padded to the alignment of field i, then the
\* field; after the last field, padded to the alignment of the structure.
RECURSIVE PackFrom(_, _, _)
PackFrom(s, i, bytes) ==
  IF i > Len(SettingsFields)
    THEN bytes \o Padding(RoundUp(Len(bytes), 8) - Len(bytes))
    ELSE LET f  == SettingsFields[i]
             at == RoundUp(Len(bytes), FieldAlign(f))
         IN  PackFrom(s, i + 1, bytes \o Padding(at - Len(bytes)) \o FieldBytes(s, f))

\* #[derive(ShaderType)]: the record as the bytes of its uniform.
Pack(s) == PackFrom(s, 1, <<>>)

\* f32::from_le_bytes, as the value in hundredths nearest to it.
F32FromLeBytes(b) ==
  LET sign == b[4] \div 128
      E    == 2 * (b[4] % 128) + (b[3] \div 128)
      frac == (b[3] % 128) * 65536 + b[2] * 256 + b[1]
  IN  IF E = 0 /\ frac = 0 THEN 0
      ELSE LET num == (Pow2(23) + frac) * Unit
               den == Pow2(23 - (E - 127))
               q   == num \div den
               r   == num % den
               mag == IF r >= den - r THEN q + 1 ELSE q
           IN  IF sign = 1 THEN -mag ELSE mag

\* The k-th four-byte scalar of the layout.
Scalar(bytes, k) == F32FromLeBytes(SubSeq(bytes, 4 * k - 3, 4 * k))

\* The record read back from the layout: 13 four-byte scalars in the order
\* of the fields, wind being the fifth and the sixth.
Unpack(bytes) ==
  [ intensity         |-> Scalar(bytes, 1),
    threshold         |-> Scalar(bytes, 2),
    streak_length_px  |-> Scalar(bytes, 3),
    rain_density      |-> Scalar(bytes, 4),
    wind              |-> <<Scalar(bytes, 5), Scalar(bytes, 6)>>,
    speed             |-> Scalar(bytes, 7),
    time              |-> Scalar(bytes, 8),
    pattern_scale     |-> Scalar(bytes, 9),
    mask_thickness_px |-> Scalar(bytes, 10),
    snap_to_pixel     |-> Scalar(bytes, 11),
    tail_quant_steps  |-> Scalar(bytes, 12),
    view_angle_factor |-> Scalar(bytes, 13) ]

\* The bytes of a record are 13 four-byte scalars from byte 0 on, and all
\* that follows them is padding.
ThirteenScalars(bytes) ==
  /\ Len(bytes) >= 52
  /\ \A i \in 53..Len(bytes) : bytes[i] = 0
  /\ \A i \in 1..Len(bytes) : bytes[i] \in 0..255

\* A record survives packing and unpacking, and its bytes are 13 four-byte
\* scalars in declaration order, wind being the fifth and the sixth.
RoundTrips(s) ==
  LET bytes == Pack(s)
  IN  /\ Unpack(bytes) = s
      /\ ThirteenScalars(bytes)
      /\ SubSeq(bytes, 1, 4) = F32ToLeBytes(s.intensity)
      /\ SubSeq(bytes, 17, 20) = F32ToLeBytes(s.wind[1])
      /\ SubSeq(bytes, 21, 24) = F32ToLeBytes(s.wind[2])
      /\ SubSeq(bytes, 25, 28) = F32ToLeBytes(s.speed)
      /\ SubSeq(bytes, 49, 52) = F32ToLeBytes(s.view_angle_factor)

\* C16: a default-valued record packed into the uniform layout and unpacked
\* again has the values it had, and so has every record the extract step
\* hands to the prepare step for writing; the packed record is 13 four-byte
\* scalars in declaration order, wind being two consecutive ones.
C16_PackUnpackRoundTrip ==
  /\ mainPc = "build" => \A e \in Entities : Has(e) => RoundTrips(settings[e])
  /\ (rPc = "prepare" /\ mainPc = "first") => \A e \in rEnts : RoundTrips(rSettings[e])

\* A default-valued record, as spawned, survives the round trip; its first
\* bytes are those of 0.35 and of 0.65, and it stands beside a record with a
\* negative wind whose bytes are those of -1.0.
C16_Witness ==
  /\ mainPc = "build"
  /\ \E e, o \in Entities :
       /\ Has(e) /\ Has(o)
       /\ settings[e] = DefaultSettings
       /\ Unpack(Pack(settings[e])) = DefaultSettings
       /\ SubSeq(Pack(settings[e]), 1, 8) = <<51, 51, 179, 62, 102, 102, 38, 63>>
       /\ SubSeq(Pack(settings[o]), 21, 24) = <<0, 0, 128, 191>>

\* The step of advance_rain_time.
IsAdvance == ~advDone /\ advDone'

\* The fields the tweak step and the shader own.
ForwardedFields == FieldNames \ {"time", "view_angle_factor"}

\* C17: advance_rain_time changes no field but time and view_angle_factor,
\* in any record; the ten other fields are as they were before it ran.
C17_AdvanceWritesTwoFields ==
  [][IsAdvance =>
       \A e \in Entities :
         /\ \A f \in ForwardedFields : settings'[e][f] = settings[e][f]
         /\ e \in AdvanceQuery =>
              /\ settings'[e].time = clock.elapsed
              /\ settings'[e].view_angle_factor = AngleFactor(gt[e])]_vars

\* advance_rain_time has just run on a camera looking down at an angle: the
\* time and the factor are new, and the intensity an earlier tweak left is
\* still there.
C17_Witness ==
  /\ advDone /\ ~tweakDone
  /\ \E e \in AdvanceQuery :
       /\ settings[e].time = clock.elapsed
       /\ settings[e].time > TickDelta
       /\ settings[e].view_angle_factor = 16
       /\ settings[e].intensity # world[e].init.intensity
       /\ settings[e].streak_length_px # world[e].init.streak_length_px

\* The statement of C18 without its note: after the update phase, the time
\* of every entity carrying settings equals the frame's clock value.
C18_EveryEntityUpdated ==
  (mainPc = "update" /\ UpdateScheduleDone) =>
    \A e \in Entities : Has(e) => settings[e].time = clock.elapsed

\* C18: after each frame's update phase the time of every Camera3d entity
\* carrying settings equals the frame's clock value, and so it does in the
\* render world's copy; an entity carrying settings without the Camera3d
\* marker is synchronized too, but keeps the time and the view_angle_factor
\* it was created with.
C18_CamerasUpdated ==
  /\ (mainPc \in {"update", "extract"} /\ UpdateScheduleDone) =>
       \A e \in Entities :
         (Has(e) /\ world[e].cam3d) => settings[e].time = clock.elapsed
  /\ rPc # "idle" =>
       \A e \in rEnts : world[e].cam3d => rSettings[e].time = snap.elapsed
  /\ \A e \in Entities :
       (Has(e) /\ ~world[e].cam3d) =>
         /\ settings[e].time = world[e].init.time
         /\ settings[e].view_angle_factor = world[e].init.view_angle_factor
         /\ rPc # "idle" => (e \in rEnts /\ rSettings[e].time = world[e].init.time)

\* In the second frame the camera has the frame's clock value, and the
\* entity that is no camera, synchronized beside it, still has time 0.
C18_Witness ==
  /\ rPc = "graph"
  /\ snap.elapsed = 2 * TickDelta
  /\ \E e, o \in rEnts :
       /\ world[e].cam3d /\ rSettings[e].time = snap.elapsed
       /\ ~world[o].cam3d /\ rSettings[o].time = 0

\* The key states the commutation is tried with: none, each single key, the
\* sets the model explores, and all keys at once.
KeyInputs == {{}, Keys} \cup {{k} : k \in Keys} \cup KeySets

\* What the two systems of the Update schedule make of a record, in either
\* order.
AdvanceThenTweak(e, keys) ==
  Tweaked(IF e \in AdvanceQuery THEN Advanced(snap.settings[e], clock, gt[e])
          ELSE snap.settings[e], keys, clock.delta)

TweakThenAdvance(e, keys) ==
  IF e \in AdvanceQuery
    THEN Advanced(Tweaked(snap.settings[e], keys, clock.delta), clock, gt[e])
    ELSE Tweaked(snap.settings[e], keys, clock.delta)

\* C19: advance_rain_time and tweak_rain_glare_settings commute on every
\* record: for every key input, the record the frame started with gives the
\* same record whichever of the two runs first, and the record the Update
\* schedule ends with is that record, whichever order the schedule took.
C19_AdvanceTweakCommute ==
  (renderApp /\ mainPc = "update") =>
    \A e \in Entities :
      Has(e) =>
        /\ (~advDone /\ ~tweakDone) =>
             /\ settings[e] = snap.settings[e]
             /\ \A keys \in KeyInputs :
                  AdvanceThenTweak(e, keys) = TweakThenAdvance(e, keys)
        /\ UpdateScheduleDone =>
             \E keys \in KeySets :
               /\ settings[e] = AdvanceThenTweak(e, keys)
               /\ settings[e] = TweakThenAdvance(e, keys)

\* The schedule ran the tweak step first and advance_rain_time second, on a
\* record both of them changed.
C19_Witness ==
  /\ renderApp /\ mainPc = "update" /\ UpdateScheduleDone
  /\ \E e \in AdvanceQuery :
       /\ timeLog[e][2] = clock.elapsed
       /\ wrote[e] # NoValue
       /\ settings[e].intensity # snap.settings[e].intensity
       /\ settings[e].time # snap.settings[e].time
       /\ settings[e] = TweakThenAdvance(e, {"KeyQ"})

\* The resource is there with its layout, its sampler and an entry for each
\* of the two formats, each naming a pipeline of the cache.
ResourceComplete ==
  /\ pipelineRes.present
  /\ pipelineRes.layout = <<"texture_2d", "sampler", "uniform_buffer_dynamic">>
  /\ pipelineRes.sampler # None
  /\ DOMAIN pipelineRes.pipelines = {"Standard", "Hdr"}
  /\ \A f \in DOMAIN pipelineRes.pipelines : pipelineRes.pipelines[f] \in 1..Len(cache)

\* C20: once build has run, the node is in the graph exactly when there is a
\* render sub-app, and once finish has run, so is the resource; no frame
\* starts before finish, so wherever the node is about to run or has run the
\* resource is complete and no execution fails for missing it. Without a
\* render sub-app there is no node, no resource and no pipeline, the render
\* phase never starts, and the main app still gets to its frames.
C20_ResourceBeforeNode ==
  /\ mainPc # "build" => (RainGlareLabel \in graphNodes <=> renderApp)
  /\ mainPc \notin {"build", "finish"} => (pipelineRes.present <=> renderApp)
  /\ mainPc \in {"build", "finish"} => (rPc = "idle" /\ clock.elapsed = 0 /\ ticks = 0)
  /\ (rPc # "idle" \/ pending # {}) => (renderApp /\ ResourceComplete)
  /\ \A e \in Entities :
       Executed(e) => (result[e] = "Ok" /\ ResourceComplete)
  /\ ~renderApp =>
       /\ RainGlareLabel \notin graphNodes
       /\ pipelineRes = NoPipelineRes
       /\ cache = <<>>
       /\ rPc = "idle"
       /\ rEnts = {}

\* The node ran for a view in the first frame rendered, with the resource
\* that finish had put there.
C20_Witness ==
  /\ renderApp
  /\ snap.elapsed = TickDelta
  /\ ResourceComplete
  /\ \E e \in Entities : Executed(e) /\ result[e] = "Ok"

====
